---- MODULE Spec2Model ----
(***************************************************************************)
(* A model of the Synacor virtual machine of src/src/vm.rs: the word       *)
(* codec (get_value, read_value, get_register), the run loop and the       *)
(* twenty-two opcode handlers.  Memory addresses are zero-based as in the  *)
(* source; the TLA+ sequence holding the memory is one-based, so the cell  *)
(* at address p is memory[p + 1].                                          *)
(***************************************************************************)
EXTENDS Integers, Sequences, FiniteSets, TLC

VARIABLES
    memory,        \* VM.memory: Vec<usize>
    registers,     \* VM.registers: [usize; 8]
    stack,         \* VM.stack: Vec<usize>
    pointer,       \* VM.pointer: usize
    input_buffer,  \* VM.input_buffer: Vec<usize>, reversed line, popped from the end
    pc,            \* position in run: "while", "match", "halted" or "panicked"
    error,         \* the panic message once pc = "panicked"
    output,        \* the characters print! has written, in order
    reads,         \* number of host lines read_line has returned so far
    last,          \* name given to the most recent log_opcode call
    frames,        \* history: for each stack entry, the address of the call that pushed it
    program,       \* history: the image load_program was given
    file,          \* main: the bytes of the File handed to read_binary
    iter,          \* read_binary: how many bytes buf.bytes() has yielded
    result         \* read_binary: the Vec<usize> being built

\* the state of read_binary, untouched while the machine runs
loader == <<file, iter, result>>

vars == <<memory, registers, stack, pointer, input_buffer, pc, error, output,
          reads, last, frames, program, loader>>

----------------------------------------------------------------------------
(* Program constants *)

\* modulo's divisor; also the first register-reference encoding
WordModulus == 32768
\* one past the last register-reference encoding
RegisterEnd == 32776
\* the number of registers
NumRegisters == 8
\* the first opcode with no handler
FirstUnknownOpcode == 22
\* the width of the values modulo keeps
WordBits == 15
\* first and last code point char::from_u32 refuses below 0x110000
SurrogateFirst == 55296
SurrogateLast == 57343

(* Bounds of the model *)

\* push and call are taken only while the stack is shorter than this
MaxStack == 3
\* out is taken only while fewer characters than this have been written
MaxOut == 3
\* the host delivers at most this many lines, then end of file
MaxReads == 2
\* the files handed to read_binary hold at most this many bytes
MaxBytes == 4

\* frames entries: a value pushed by push, or the return address pushed by the call at `at`
ByPush == [call |-> FALSE, at |-> 0]
ByCall(at) == [call |-> TRUE, at |-> at]

(* Panic messages *)
IndexOutOfBounds == "index out of bounds"
IllegalValue == "illegal value"
ExpectedRegister == "Expected a register but got number"
UnwrapNone == "called Option::unwrap() on a None value"
Umimplemented == "umimplemented"
HaltPanic == "halt!"
RemainderByZero == "attempt to calculate the remainder with a divisor of zero"

----------------------------------------------------------------------------
(* Results of the fallible helpers: a value, or the panic that ends run *)

Ok(n) == [ok |-> TRUE, v |-> n, msg |-> ""]
Fail(m) == [ok |-> FALSE, v |-> 0, msg |-> m]

\* fn modulo
modulo(number) == number % WordModulus

\* Value::Number / Value::Register, or the panic of get_value
Number(n) == [tag |-> "Number", n |-> n, msg |-> ""]
Register(r) == [tag |-> "Register", n |-> r, msg |-> ""]
ValuePanic(m) == [tag |-> "Panic", n |-> 0, msg |-> m]

\* fn get_value: the cell at `p` classified; indexing past the Vec panics
get_value(p) ==
    IF p >= Len(memory) THEN ValuePanic(IndexOutOfBounds)
    ELSE LET value == memory[p + 1] IN
         IF value < WordModulus THEN Number(value)
         ELSE IF value >= WordModulus /\ value < RegisterEnd
              THEN Register(modulo(value))
              ELSE ValuePanic(IllegalValue)

\* fn read_value: a number is itself, a register reference is that register's contents
read_value(p) ==
    LET val == get_value(p) IN
    CASE val.tag = "Number" -> Ok(val.n)
      [] val.tag = "Register" -> Ok(registers[val.n])
      [] OTHER -> Fail(val.msg)

\* fn get_register: the register index, or the expected-register panic
get_register(p) ==
    LET val == get_value(p) IN
    CASE val.tag = "Number" -> Fail(ExpectedRegister)
      [] val.tag = "Register" -> Ok(val.n)
      [] OTHER -> Fail(val.msg)

\* fn read_value_at_pointer
read_value_at_pointer == read_value(pointer)

\* the op_code run matches on (read again after the loop condition)
op_code == read_value_at_pointer.v

----------------------------------------------------------------------------
(* Bitwise operations on usize values *)

RECURSIVE BitAnd(_, _)
BitAnd(a, b) ==
    IF a = 0 \/ b = 0 THEN 0
    ELSE (a % 2) * (b % 2) + 2 * BitAnd(a \div 2, b \div 2)

RECURSIVE BitOr(_, _)
BitOr(a, b) ==
    IF a = 0 THEN b
    ELSE IF b = 0 THEN a
    ELSE (IF a % 2 = 1 \/ b % 2 = 1 THEN 1 ELSE 0) + 2 * BitOr(a \div 2, b \div 2)

\* modulo(!a): the low WordBits bits of the complement of a.  The complement
\* flips every bit of the usize; modulo keeps the low WordBits of them, which
\* are the flipped low WordBits bits of a.
RECURSIVE NotLowBits(_, _)
NotLowBits(a, bits) ==
    IF bits = 0 THEN 0
    ELSE (1 - (a % 2)) + 2 * NotLowBits(a \div 2, bits - 1)

\* a mutated modulo_not that keeps sixteen bits of the complement
modulo_not_sixteen(a) == NotLowBits(a, WordBits + 1)

modulo_not(a) == NotLowBits(a, WordBits)

\* char::from_u32(code).unwrap(): None for a surrogate
valid_char(code) == ~(code >= SurrogateFirst /\ code <= SurrogateLast)

\* Vec::reverse
RECURSIVE Reverse(_)
Reverse(s) == IF s = <<>> THEN <<>> ELSE Append(Reverse(Tail(s)), Head(s))

\* Vec without its last element (Vec::pop's effect on the Vec)
Front(s) == SubSeq(s, 1, Len(s) - 1)

----------------------------------------------------------------------------
(* The host's standard input *)

\* read_line at end of file leaves the String empty
EndOfFile == <<>>

\* the lines read_line may return: "x\n", "\n", and a line starting with U+8000
HostLines == {<<120, 10>>, <<10>>, <<32768, 10>>, EndOfFile}

----------------------------------------------------------------------------
(* Ways an instruction ends *)

\* a panic inside the handler `name`: nothing else has been written
Abort(name, msg) ==
    /\ pc' = "panicked"
    /\ error' = msg
    /\ last' = name
    /\ UNCHANGED <<memory, registers, stack, pointer, input_buffer, output,
                   reads, frames, program, loader>>

\* self.registers[reg] = value; self.pointer += advance
Store(name, reg, value, advance) ==
    /\ registers' = [registers EXCEPT ![reg] = value]
    /\ pointer' = pointer + advance
    /\ pc' = "while"
    /\ last' = name
    /\ UNCHANGED <<memory, stack, input_buffer, error, output, reads, frames, program, loader>>

\* self.pointer = target
Jump(name, target) ==
    /\ pointer' = target
    /\ pc' = "while"
    /\ last' = name
    /\ UNCHANGED <<memory, registers, stack, input_buffer, error, output, reads,
                   frames, program, loader>>

\* the match arm taken for the op_code k
Dispatched(k) == pc = "match" /\ read_value_at_pointer.ok /\ op_code = k

----------------------------------------------------------------------------
(* fn run: the loop condition, then one action per match arm *)

\* a mutated loop condition that does not stop on the word 0
run_while_no_zero_check ==
    /\ pc = "while"
    /\ LET word == read_value_at_pointer IN
       /\ pc' = IF ~word.ok THEN "panicked" ELSE "match"
       /\ error' = IF ~word.ok THEN word.msg ELSE error
    /\ UNCHANGED <<memory, registers, stack, pointer, input_buffer, output, reads,
                   last, frames, program, loader>>

\* while self.read_value_at_pointer() != 0
run_while ==
    /\ pc = "while"
    /\ LET word == read_value_at_pointer IN
       /\ pc' = IF ~word.ok THEN "panicked" ELSE IF word.v = 0 THEN "halted" ELSE "match"
       /\ error' = IF ~word.ok THEN word.msg ELSE error
    /\ UNCHANGED <<memory, registers, stack, pointer, input_buffer, output, reads,
                   last, frames, program, loader>>

\* fn halt: the arm for op_code 0
halt ==
    /\ Dispatched(0)
    /\ Abort("halt", HaltPanic)

set ==
    /\ Dispatched(1)
    /\ LET reg == get_register(pointer + 1)
           value == read_value(pointer + 2)
       IN IF ~reg.ok THEN Abort("set", reg.msg)
          ELSE IF ~value.ok THEN Abort("set", value.msg)
          ELSE Store("set", reg.v, value.v, 3)

\* a mutated push that pushes its operand word without resolving it
push_raw_word ==
    /\ Dispatched(2)
    /\ Len(stack) < MaxStack
    /\ LET value == read_value(pointer + 1)
       IN IF ~value.ok THEN Abort("push", value.msg)
          ELSE /\ stack' = Append(stack, memory[pointer + 2])
               /\ frames' = Append(frames, ByPush)
               /\ pointer' = pointer + 2
               /\ pc' = "while"
               /\ last' = "push"
               /\ UNCHANGED <<memory, registers, input_buffer, error, output, reads,
                              program, loader>>

push ==
    /\ Dispatched(2)
    /\ Len(stack) < MaxStack
    /\ LET value == read_value(pointer + 1)
       IN IF ~value.ok THEN Abort("push", value.msg)
          ELSE /\ stack' = Append(stack, value.v)
               /\ frames' = Append(frames, ByPush)
               /\ pointer' = pointer + 2
               /\ pc' = "while"
               /\ last' = "push"
               /\ UNCHANGED <<memory, registers, input_buffer, error, output, reads,
                              program, loader>>

\* a mutated pop that takes the value off the stack before it looks at its operand
pop_before_register ==
    /\ Dispatched(3)
    /\ LET register == get_register(pointer + 1)
       IN IF stack = <<>> THEN Abort("pop", UnwrapNone)
          ELSE IF ~register.ok
          THEN /\ stack' = Front(stack)
               /\ frames' = Front(frames)
               /\ pc' = "panicked"
               /\ error' = register.msg
               /\ last' = "pop"
               /\ UNCHANGED <<memory, registers, pointer, input_buffer, output, reads,
                              program, loader>>
          ELSE /\ registers' = [registers EXCEPT ![register.v] = stack[Len(stack)]]
               /\ stack' = Front(stack)
               /\ frames' = Front(frames)
               /\ pointer' = pointer + 2
               /\ pc' = "while"
               /\ last' = "pop"
               /\ UNCHANGED <<memory, input_buffer, error, output, reads, program, loader>>

pop ==
    /\ Dispatched(3)
    /\ LET register == get_register(pointer + 1)
       IN IF ~register.ok THEN Abort("pop", register.msg)
          ELSE IF stack = <<>> THEN Abort("pop", UnwrapNone)
          ELSE /\ registers' = [registers EXCEPT ![register.v] = stack[Len(stack)]]
               /\ stack' = Front(stack)
               /\ frames' = Front(frames)
               /\ pointer' = pointer + 2
               /\ pc' = "while"
               /\ last' = "pop"
               /\ UNCHANGED <<memory, input_buffer, error, output, reads, program, loader>>

eq ==
    /\ Dispatched(4)
    /\ LET register == get_register(pointer + 1)
           a == read_value(pointer + 2)
           b == read_value(pointer + 3)
       IN IF ~register.ok THEN Abort("eq", register.msg)
          ELSE IF ~a.ok THEN Abort("eq", a.msg)
          ELSE IF ~b.ok THEN Abort("eq", b.msg)
          ELSE Store("eq", register.v, IF a.v = b.v THEN 1 ELSE 0, 4)

gt ==
    /\ Dispatched(5)
    /\ LET register == get_register(pointer + 1)
           a == read_value(pointer + 2)
           b == read_value(pointer + 3)
       IN IF ~register.ok THEN Abort("gt", register.msg)
          ELSE IF ~a.ok THEN Abort("gt", a.msg)
          ELSE IF ~b.ok THEN Abort("gt", b.msg)
          ELSE Store("gt", register.v, IF a.v > b.v THEN 1 ELSE 0, 4)

\* a mutated jmp that also pushes a return address, as call does
jmp_as_call ==
    /\ Dispatched(6)
    /\ LET jump_to == read_value(pointer + 1)
       IN IF ~jump_to.ok THEN Abort("jmp", jump_to.msg)
          ELSE /\ stack' = Append(stack, pointer + 2)
               /\ frames' = Append(frames, ByCall(pointer))
               /\ pointer' = jump_to.v
               /\ pc' = "while"
               /\ last' = "jmp"
               /\ UNCHANGED <<memory, registers, input_buffer, error, output, reads,
                              program, loader>>

jmp ==
    /\ Dispatched(6)
    /\ LET jump_to == read_value(pointer + 1)
       IN IF ~jump_to.ok THEN Abort("jmp", jump_to.msg)
          ELSE Jump("jmp", jump_to.v)

jt ==
    /\ Dispatched(7)
    /\ LET cond == read_value(pointer + 1)
           jump_to == read_value(pointer + 2)
       IN IF ~cond.ok THEN Abort("jt", cond.msg)
          ELSE IF cond.v # 0
          THEN IF ~jump_to.ok THEN Abort("jt", jump_to.msg)
               ELSE Jump("jt", jump_to.v)
          ELSE Jump("jt", pointer + 3)

\* a mutated jf that jumps on a non-zero value, as jt does
jf_jumps_on_nonzero ==
    /\ Dispatched(8)
    /\ LET cond == read_value(pointer + 1)
           jump_to == read_value(pointer + 2)
       IN IF ~cond.ok THEN Abort("jf", cond.msg)
          ELSE IF cond.v # 0
          THEN IF ~jump_to.ok THEN Abort("jf", jump_to.msg)
               ELSE Jump("jf", jump_to.v)
          ELSE Jump("jf", pointer + 3)

jf ==
    /\ Dispatched(8)
    /\ LET cond == read_value(pointer + 1)
           jump_to == read_value(pointer + 2)
       IN IF ~cond.ok THEN Abort("jf", cond.msg)
          ELSE IF cond.v = 0
          THEN IF ~jump_to.ok THEN Abort("jf", jump_to.msg)
               ELSE Jump("jf", jump_to.v)
          ELSE Jump("jf", pointer + 3)

\* a mutated add that stores the sum without modulo
add_unreduced ==
    /\ Dispatched(9)
    /\ LET register == get_register(pointer + 1)
           a == read_value(pointer + 2)
           b == read_value(pointer + 3)
       IN IF ~register.ok THEN Abort("add", register.msg)
          ELSE IF ~a.ok THEN Abort("add", a.msg)
          ELSE IF ~b.ok THEN Abort("add", b.msg)
          ELSE Store("add", register.v, a.v + b.v, 4)

add ==
    /\ Dispatched(9)
    /\ LET register == get_register(pointer + 1)
           a == read_value(pointer + 2)
           b == read_value(pointer + 3)
       IN IF ~register.ok THEN Abort("add", register.msg)
          ELSE IF ~a.ok THEN Abort("add", a.msg)
          ELSE IF ~b.ok THEN Abort("add", b.msg)
          ELSE Store("add", register.v, modulo(a.v + b.v), 4)

mult ==
    /\ Dispatched(10)
    /\ LET register == get_register(pointer + 1)
           a == read_value(pointer + 2)
           b == read_value(pointer + 3)
       IN IF ~register.ok THEN Abort("mult", register.msg)
          ELSE IF ~a.ok THEN Abort("mult", a.msg)
          ELSE IF ~b.ok THEN Abort("mult", b.msg)
          ELSE Store("mult", register.v, modulo(a.v * b.v), 4)

\* a mutated mod that stores 0 for a zero divisor instead of panicking
mod_zero_gives_zero ==
    /\ Dispatched(11)
    /\ LET register == get_register(pointer + 1)
           a == read_value(pointer + 2)
           b == read_value(pointer + 3)
       IN IF ~register.ok THEN Abort("mod", register.msg)
          ELSE IF ~a.ok THEN Abort("mod", a.msg)
          ELSE IF ~b.ok THEN Abort("mod", b.msg)
          ELSE Store("mod", register.v, IF b.v = 0 THEN 0 ELSE a.v % b.v, 4)

mod ==
    /\ Dispatched(11)
    /\ LET register == get_register(pointer + 1)
           a == read_value(pointer + 2)
           b == read_value(pointer + 3)
       IN IF ~register.ok THEN Abort("mod", register.msg)
          ELSE IF ~a.ok THEN Abort("mod", a.msg)
          ELSE IF ~b.ok THEN Abort("mod", b.msg)
          ELSE IF b.v = 0 THEN Abort("mod", RemainderByZero)
          ELSE Store("mod", register.v, a.v % b.v, 4)

and ==
    /\ Dispatched(12)
    /\ LET register == get_register(pointer + 1)
           a == read_value(pointer + 2)
           b == read_value(pointer + 3)
       IN IF ~register.ok THEN Abort("and", register.msg)
          ELSE IF ~a.ok THEN Abort("and", a.msg)
          ELSE IF ~b.ok THEN Abort("and", b.msg)
          ELSE Store("and", register.v, modulo(BitAnd(a.v, b.v)), 4)

or ==
    /\ Dispatched(13)
    /\ LET register == get_register(pointer + 1)
           a == read_value(pointer + 2)
           b == read_value(pointer + 3)
       IN IF ~register.ok THEN Abort("or", register.msg)
          ELSE IF ~a.ok THEN Abort("or", a.msg)
          ELSE IF ~b.ok THEN Abort("or", b.msg)
          ELSE Store("or", register.v, modulo(BitOr(a.v, b.v)), 4)

not ==
    /\ Dispatched(14)
    /\ LET register == get_register(pointer + 1)
           a == read_value(pointer + 2)
       IN IF ~register.ok THEN Abort("not", register.msg)
          ELSE IF ~a.ok THEN Abort("not", a.msg)
          ELSE Store("not", register.v, modulo_not(a.v), 3)

rmem ==
    /\ Dispatched(15)
    /\ LET register == get_register(pointer + 1)
           address == read_value(pointer + 2)
           value == read_value(address.v)
       IN IF ~register.ok THEN Abort("rmem", register.msg)
          ELSE IF ~address.ok THEN Abort("rmem", address.msg)
          ELSE IF ~value.ok THEN Abort("rmem", value.msg)
          ELSE Store("rmem", register.v, value.v, 3)

wmem ==
    /\ Dispatched(16)
    /\ LET address == read_value(pointer + 1)
           value == read_value(pointer + 2)
       IN IF ~address.ok THEN Abort("wmem", address.msg)
          ELSE IF ~value.ok THEN Abort("wmem", value.msg)
          ELSE IF address.v >= Len(memory) THEN Abort("wmem", IndexOutOfBounds)
          ELSE /\ memory' = [memory EXCEPT ![address.v + 1] = value.v]
               /\ pointer' = pointer + 3
               /\ pc' = "while"
               /\ last' = "wmem"
               /\ UNCHANGED <<registers, stack, input_buffer, error, output, reads,
                              frames, program, loader>>

\* a mutated call that pushes the address of its operand instead of the next instruction
call_push_operand ==
    /\ Dispatched(17)
    /\ Len(stack) < MaxStack
    /\ LET jump_to == read_value(pointer + 1)
       IN IF ~jump_to.ok THEN Abort("call", jump_to.msg)
          ELSE /\ stack' = Append(stack, pointer + 1)
               /\ frames' = Append(frames, ByCall(pointer))
               /\ pointer' = jump_to.v
               /\ pc' = "while"
               /\ last' = "call"
               /\ UNCHANGED <<memory, registers, input_buffer, error, output, reads,
                              program, loader>>

call ==
    /\ Dispatched(17)
    /\ Len(stack) < MaxStack
    /\ LET jump_to == read_value(pointer + 1)
           original_next == pointer + 2
       IN IF ~jump_to.ok THEN Abort("call", jump_to.msg)
          ELSE /\ stack' = Append(stack, original_next)
               /\ frames' = Append(frames, ByCall(pointer))
               /\ pointer' = jump_to.v
               /\ pc' = "while"
               /\ last' = "call"
               /\ UNCHANGED <<memory, registers, input_buffer, error, output, reads,
                              program, loader>>

\* a mutated ret that resumes one word past the popped address
ret_skips_word ==
    /\ Dispatched(18)
    /\ IF stack = <<>> THEN Abort("ret", UnwrapNone)
       ELSE /\ pointer' = stack[Len(stack)] + 1
            /\ stack' = Front(stack)
            /\ frames' = Front(frames)
            /\ pc' = "while"
            /\ last' = "ret"
            /\ UNCHANGED <<memory, registers, input_buffer, error, output, reads,
                           program, loader>>

\* a mutated ret that treats an empty stack as a halt
ret_halts_on_empty ==
    /\ Dispatched(18)
    /\ IF stack = <<>>
       THEN /\ pc' = "halted"
            /\ last' = "ret"
            /\ UNCHANGED <<memory, registers, stack, pointer, input_buffer, error,
                           output, reads, frames, program, loader>>
       ELSE /\ pointer' = stack[Len(stack)]
            /\ stack' = Front(stack)
            /\ frames' = Front(frames)
            /\ pc' = "while"
            /\ last' = "ret"
            /\ UNCHANGED <<memory, registers, input_buffer, error, output, reads,
                           program, loader>>

ret ==
    /\ Dispatched(18)
    /\ IF stack = <<>> THEN Abort("ret", UnwrapNone)
       ELSE /\ pointer' = stack[Len(stack)]
            /\ stack' = Front(stack)
            /\ frames' = Front(frames)
            /\ pc' = "while"
            /\ last' = "ret"
            /\ UNCHANGED <<memory, registers, input_buffer, error, output, reads,
                           program, loader>>

out ==
    /\ Dispatched(19)
    /\ Len(output) < MaxOut
    /\ LET char_code == read_value(pointer + 1)
       IN IF ~char_code.ok THEN Abort("out", char_code.msg)
          ELSE IF ~valid_char(char_code.v) THEN Abort("out", UnwrapNone)
          ELSE /\ output' = Append(output, char_code.v)
               /\ pointer' = pointer + 2
               /\ pc' = "while"
               /\ last' = "out"
               /\ UNCHANGED <<memory, registers, stack, input_buffer, error, reads,
                              frames, program, loader>>

\* a mutated Refilled that forgets input_buffer.reverse()
Refilled_unreversed(line) == IF input_buffer = <<>> THEN line ELSE input_buffer

\* the reversed line in the buffer once the refill of `in` has run
Refilled(line) == IF input_buffer = <<>> THEN Reverse(line) ELSE input_buffer

in ==
    /\ Dispatched(20)
    /\ \E line \in (IF input_buffer = <<>> /\ reads < MaxReads THEN HostLines
                    ELSE {EndOfFile}) :
         LET buffer == Refilled(line)
             operand == get_value(pointer + 1)
         IN /\ reads' = IF input_buffer = <<>> /\ reads < MaxReads THEN reads + 1
                        ELSE reads
            /\ last' = "in"
            /\ UNCHANGED <<stack, output, frames, program, loader>>
            /\ IF operand.tag = "Panic"
               THEN /\ pc' = "panicked"
                    /\ error' = operand.msg
                    /\ input_buffer' = buffer
                    /\ UNCHANGED <<memory, registers, pointer>>
               ELSE IF buffer = <<>>
               THEN /\ pc' = "panicked"
                    /\ error' = UnwrapNone
                    /\ input_buffer' = buffer
                    /\ UNCHANGED <<memory, registers, pointer>>
               ELSE IF operand.tag = "Number"
               THEN IF operand.n >= Len(memory)
                    THEN /\ pc' = "panicked"
                         /\ error' = IndexOutOfBounds
                         /\ input_buffer' = Front(buffer)
                         /\ UNCHANGED <<memory, registers, pointer>>
                    ELSE /\ memory' = [memory EXCEPT ![operand.n + 1] = buffer[Len(buffer)]]
                         /\ input_buffer' = Front(buffer)
                         /\ pointer' = pointer + 2
                         /\ pc' = "while"
                         /\ UNCHANGED <<registers, error>>
               ELSE /\ registers' = [registers EXCEPT ![operand.n] = buffer[Len(buffer)]]
                    /\ input_buffer' = Front(buffer)
                    /\ pointer' = pointer + 2
                    /\ pc' = "while"
                    /\ UNCHANGED <<memory, error>>

\* a mutated noop that advances by two words
noop_skips_word ==
    /\ Dispatched(21)
    /\ Jump("noop", pointer + 2)

noop ==
    /\ Dispatched(21)
    /\ Jump("noop", pointer + 1)

\* fn unimplemented: the arm for every other op_code
unimplemented ==
    /\ pc = "match"
    /\ read_value_at_pointer.ok
    /\ op_code >= FirstUnknownOpcode
    /\ Abort("unimplemented", Umimplemented)

----------------------------------------------------------------------------
(* The program images the machine is booted with *)

\* emits "Hi"
Scenario1 == <<19, 72, 19, 105, 0>>
\* sets r1 and r2, adds them into r0, emits the sum
Scenario2 == <<1, 32769, 1, 1, 32770, 2, 9, 32768, 32769, 32770, 19, 32768, 0>>
\* jumps over a halt
Scenario3 == <<6, 3, 0, 19, 65, 0>>
\* calls a routine that emits "B" and returns
Scenario4 == <<17, 4, 0, 0, 19, 66, 18>>
\* eq, then jt over the "N" branch
Scenario5 == <<4, 32768, 5, 5, 7, 32768, 9, 19, 78, 0, 19, 89, 0>>
\* echoes one character
Scenario6 == <<20, 32768, 19, 32768, 0>>
\* rmem of a cell that holds the encoding of register 1
RmemOfReference == <<1, 32769, 7, 15, 32768, 7, 0, 32769>>
\* a register reference in opcode position, r0 still 0
ReferenceAsHalt == <<32768, 19, 65>>
\* a register reference in opcode position, r0 holding the opcode of noop
ReferenceAsNoop == <<1, 32768, 21, 32768, 19, 65, 0>>
\* in with a literal operand, then in with a literal operand past the image
InLiteral == <<20, 4, 20, 9, 0, 0>>
\* in into r0, then wmem of r0 into the image
InThenWmem == <<20, 32768, 16, 5, 32768, 0>>
\* call 5; halt; ...; 5: push 7; call 12; pop r0; ret; 12: out "B"; ret
NestedCalls == <<17, 5, 0, 0, 0, 2, 7, 17, 12, 3, 32768, 18, 19, 66, 18>>
\* ret to a value that push put on the stack
RetToPushed == <<2, 4, 18, 0, 0>>
\* call, then the callee pops the return address and jumps back itself
CallThenPop == <<17, 3, 0, 3, 32768, 6, 32768>>
\* three in instructions, each echoed
ReadThree == <<20, 32768, 19, 32768, 20, 32769, 19, 32769, 20, 32770, 19, 32770, 0>>
\* add and mult at the top of the word range
Wraparound == <<9, 32768, 32767, 1, 10, 32769, 32767, 32767, 14, 32770, 0, 0>>
\* push v; pop r
PushPop == <<1, 32769, 9, 2, 32769, 3, 32768, 2, 5, 3, 32770, 0>>

\* push 5, then pop with a literal in the register slot
PopLiteral == <<2, 5, 3, 0, 0>>
\* push 11; set r1 9; push r1; pop r0; halt
PushUnderPop == <<2, 11, 1, 32769, 9, 2, 32769, 3, 32768, 0>>
\* an image filling the whole 15-bit address space: jmp 32766; 3: pop r0;
\* wmem 10 r0; halt; ...; 32766: call 3
FullImage ==
    [i \in 1..WordModulus |->
        CASE i = 1 -> 6
          [] i = 2 -> WordModulus - 2
          [] i = 4 -> 3
          [] i = 5 -> WordModulus
          [] i = 6 -> 16
          [] i = 7 -> 10
          [] i = 8 -> WordModulus
          [] i = WordModulus - 1 -> 17
          [] i = WordModulus -> 3
          [] OTHER -> 0]

Curated ==
    { Scenario1, Scenario2, Scenario3, Scenario4, Scenario5, Scenario6,
      RmemOfReference, ReferenceAsHalt, ReferenceAsNoop, InLiteral, InThenWmem,
      NestedCalls, RetToPushed, CallThenPop, ReadThree, Wraparound, PushPop,
      PopLiteral, PushUnderPop, FullImage }

\* values the family's leading set gives r0
FamilyValues == {0, 4, 32767}
\* words in the operand slots of the family's instruction
FamilyOperands == {0, 2, 32767, 32768, 32769}
\* every word that may stand in opcode position, one unknown opcode included
FamilyOpcodes == 0..FirstUnknownOpcode

\* set r0 x; <op a b c>; halt
Family ==
    { <<1, 32768, x, op, a, b, c, 0>> :
        x \in FamilyValues, op \in FamilyOpcodes,
        a \in FamilyOperands, b \in FamilyOperands, c \in FamilyOperands }

Programs == Curated \cup Family

----------------------------------------------------------------------------
(* VM::boot().load_program(program), then run *)

Init ==
    /\ program \in Programs
    /\ memory = program
    /\ registers = [r \in 0..(NumRegisters - 1) |-> 0]
    /\ stack = <<>>
    /\ pointer = 0
    /\ input_buffer = <<>>
    /\ pc = "while"
    /\ error = ""
    /\ output = <<>>
    /\ reads = 0
    /\ last = ""
    /\ frames = <<>>
    /\ file = <<>>
    /\ iter = 0
    /\ result = <<>>

\* one disjunct per step of run.  The arm `0 => self.halt()` is the action halt
\* above; its guard needs op_code = 0 right after the loop condition found the
\* same word non-zero, so it is never enabled and is not a disjunct here.
Next ==
    \/ run_while
    \/ set
    \/ push
    \/ pop
    \/ eq
    \/ gt
    \/ jmp
    \/ jt
    \/ jf
    \/ add
    \/ mult
    \/ mod
    \/ and
    \/ or
    \/ not
    \/ rmem
    \/ wmem
    \/ call
    \/ ret
    \/ out
    \/ in
    \/ noop
    \/ unimplemented

Spec == Init /\ [][Next]_vars

----------------------------------------------------------------------------
(* fn read_binary of main.rs, then VM::boot().load_program(..) *)

\* a mutated word_of that takes the first byte of a pair as the high byte
word_of_big_endian(low_byte, high_byte) ==
    BitOr((low_byte * 2^8) % 2^16, high_byte)

\* (((high_byte as u16) << 8) | low_byte as u16).into()
word_of(low_byte, high_byte) ==
    BitOr((high_byte * 2^8) % 2^16, low_byte)

\* both iter.next() calls yield a byte: the pair is pushed as one word
read_binary_pair ==
    /\ pc = "read_binary"
    /\ iter + 2 <= Len(file)
    /\ result' = Append(result, word_of(file[iter + 1], file[iter + 2]))
    /\ iter' = iter + 2
    /\ UNCHANGED <<memory, registers, stack, pointer, input_buffer, pc, error,
                   output, reads, last, frames, program, file>>

\* the first iter.next() yields the last byte, the second yields None: nothing is pushed
read_binary_odd ==
    /\ pc = "read_binary"
    /\ iter + 1 = Len(file)
    /\ iter' = iter + 1
    /\ UNCHANGED <<memory, registers, stack, pointer, input_buffer, pc, error,
                   output, reads, last, frames, program, file, result>>

\* iter.next() yields None: read_binary returns result and load_program stores it
read_binary_return ==
    /\ pc = "read_binary"
    /\ iter = Len(file)
    /\ memory' = result
    /\ program' = result
    /\ pc' = "loaded"
    /\ UNCHANGED <<registers, stack, pointer, input_buffer, error, output, reads,
                   last, frames, loader>>

\* byte values the files are made of: 0x00, 0x12, 0x34, 0xff
SampleBytes == {0, 18, 52, 255}

\* every file of at most MaxBytes sample bytes
ByteStreams == UNION { [1..n -> SampleBytes] : n \in 0..MaxBytes }

\* main before read_binary has consumed anything: the machine as boot leaves it
LoaderInit ==
    /\ file \in ByteStreams
    /\ iter = 0
    /\ result = <<>>
    /\ program = <<>>
    /\ memory = <<>>
    /\ registers = [r \in 0..(NumRegisters - 1) |-> 0]
    /\ stack = <<>>
    /\ pointer = 0
    /\ input_buffer = <<>>
    /\ pc = "read_binary"
    /\ error = ""
    /\ output = <<>>
    /\ reads = 0
    /\ last = ""
    /\ frames = <<>>

LoaderNext ==
    \/ read_binary_pair
    \/ read_binary_odd
    \/ read_binary_return

LoaderSpec == LoaderInit /\ [][LoaderNext]_vars

----------------------------------------------------------------------------
(* The claims *)

\* the opcodes whose first operand is a destination register
DestinationOpcodes == {1, 3, 4, 5, 9, 10, 11, 12, 13, 14, 15}

\* C1: whenever rmem a b executes with a register in slot a and resolve(b) an
\* address inside the memory, it completes and register a then holds the raw
\* word stored at that address, register-reference encodings included.
C1_RmemStoresRawWord ==
    [][ ( /\ Dispatched(15)
          /\ get_register(pointer + 1).ok
          /\ read_value(pointer + 2).ok
          /\ read_value(pointer + 2).v < Len(memory) )
        => ( /\ pc' = "while"
             /\ registers'[get_register(pointer + 1).v]
                  = memory[read_value(pointer + 2).v + 1] ) ]_vars

\* C2: the opcode acted on is the stored word at memory[pointer]: run has
\* halted cleanly only on a stored 0, and the op_code dispatched on is the
\* stored word.
C2_OpcodeIsStoredWord ==
    /\ pc = "halted" => memory[pointer + 1] = 0
    /\ pc = "match" => memory[pointer + 1] = op_code

\* C3: every register holds a value in [0, 32768) in every reachable state.
C3_RegistersAreWords ==
    \A r \in DOMAIN registers : registers[r] >= 0 /\ registers[r] < WordModulus

\* C4: in whose operand word is a literal aborts and writes no memory cell.
C4_InRejectsLiteral ==
    [][ ( /\ Dispatched(20)
          /\ pointer + 1 < Len(memory)
          /\ memory[pointer + 2] < WordModulus )
        => ( pc' = "panicked" /\ memory' = memory ) ]_vars

\* C5: after every step, a memory cell holding a value >= 32768 holds what the
\* loader put there, and a completed wmem has stored a word below 32768.
C5_GuestWritesLiterals ==
    [][ /\ \A i \in DOMAIN memory' :
             memory'[i] >= WordModulus => memory'[i] = program[i]
        /\ (Dispatched(16) /\ pc' = "while")
             => memory'[read_value(pointer + 1).v + 1] < WordModulus ]_vars

\* C6: wmem whose operands resolve and whose target address is below 32768
\* completes and leaves the target cell equal to resolve(b), also when the
\* address is at or beyond the end of the loaded image.
C6_WmemAnywhere ==
    [][ ( /\ Dispatched(16)
          /\ read_value(pointer + 1).ok
          /\ read_value(pointer + 2).ok
          /\ read_value(pointer + 1).v < WordModulus )
        => ( /\ pc' = "while"
             /\ read_value(pointer + 1).v < Len(memory')
             /\ memory'[read_value(pointer + 1).v + 1] = read_value(pointer + 2).v ) ]_vars

\* C7: a ret that pops the entry a call at address p pushed (everything pushed
\* above it since has been popped again) continues at p + 2.
C7_BalancedRetReturnsAfterCall ==
    [][ ( /\ Dispatched(18)
          /\ frames # <<>>
          /\ frames[Len(frames)].call )
        => ( pc' = "while" /\ pointer' = frames[Len(frames)].at + 2 ) ]_vars

\* C7 witness: NestedCalls has run its inner call, push and pop, and the outer
\* ret has returned to address 2.
C7_Witness ==
    /\ program = NestedCalls
    /\ last = "ret"
    /\ pointer = 2
    /\ registers[0] = 7
    /\ output = <<66>>
    /\ stack = <<>>

\* C8 as stated: run of [17, 4, 0, 0, 19, 66, 18] ends halted at address 3
\* having emitted exactly "B".
C8_ReturnsToThree ==
    (program = Scenario4 /\ pc \in {"halted", "panicked"})
        => (pc = "halted" /\ output = <<66>> /\ pointer = 3)

\* C8 amended: run of [17, 4, 0, 0, 19, 66, 18] calls address 4 leaving 2 on
\* the stack, never panics, and ends halted at address 2, the word after the
\* call's operand, having emitted exactly "B" and with the stack empty again.
C8_ReturnsToTwo ==
    program = Scenario4 =>
        /\ pc # "panicked"
        /\ last = "call" => (pointer = 4 /\ stack = <<2>> /\ output = <<>>)
        /\ last = "ret" => (pointer = 2 /\ stack = <<>> /\ output = <<66>>)
        /\ pc = "halted" => (last = "ret" /\ pointer = 2 /\ output = <<66>>)

\* C8 witness: the run has halted after the ret
C8_Witness ==
    /\ program = Scenario4
    /\ pc = "halted"
    /\ last = "ret"
    /\ pointer = 2
    /\ output = <<66>>

\* C9: an instruction with a destination register whose first operand word is
\* a literal aborts with the expected-register panic, with the registers, the
\* memory, the stack and the pointer as they were.
C9_LiteralDestinationAborts ==
    [][ ( /\ pc = "match"
          /\ read_value_at_pointer.ok
          /\ op_code \in DestinationOpcodes
          /\ pointer + 1 < Len(memory)
          /\ memory[pointer + 2] < WordModulus )
        => ( /\ pc' = "panicked"
             /\ error' = ExpectedRegister
             /\ UNCHANGED <<registers, memory, stack, pointer>> ) ]_vars

\* C9 witness: pop with a literal operand has aborted with a value on the stack
C9_Witness ==
    /\ program = PopLiteral
    /\ pc = "panicked"
    /\ error = ExpectedRegister
    /\ last = "pop"
    /\ stack = <<5>>
    /\ pointer = 2

\* C10: pop or ret dispatched with an empty stack ends in a panic, with the
\* registers and the pointer as they were; the panic is the failed unwrap
\* whenever the instruction got as far as the stack.
C10_EmptyStackAborts ==
    [][ ( /\ pc = "match"
          /\ read_value_at_pointer.ok
          /\ op_code \in {3, 18}
          /\ stack = <<>> )
        => ( /\ pc' = "panicked"
             /\ UNCHANGED <<registers, pointer>>
             /\ (op_code = 18 \/ get_register(pointer + 1).ok) => error' = UnwrapNone ) ]_vars

\* C10 witness: a ret on the empty stack has aborted
C10_Witness ==
    /\ pc = "panicked"
    /\ error = UnwrapNone
    /\ last = "ret"
    /\ stack = <<>>

\* C11: push appends resolve(v) to the stack, and a pop r dispatched right
\* after a push stores the top of the stack, the value push appended, in
\* register r and removes it, so the stack is again what it was before the push.
C11_PushThenPop ==
    [][ /\ (Dispatched(2) /\ pc' = "while")
             => stack' = Append(stack, read_value(pointer + 1).v)
        /\ (Dispatched(3) /\ last = "push" /\ get_register(pointer + 1).ok)
             => ( /\ pc' = "while"
                  /\ registers'[get_register(pointer + 1).v] = stack[Len(stack)]
                  /\ stack' = Front(stack) ) ]_vars

\* C11 witness: PushUnderPop has pushed r1 = 9 over the 11 and popped it into r0
C11_Witness ==
    /\ program = PushUnderPop
    /\ last = "pop"
    /\ registers[0] = 9
    /\ stack = <<11>>
    /\ pointer = 9

\* the word an `in` that completed has just stored
Delivered(operand) ==
    IF operand.tag = "Register" THEN registers'[operand.n] ELSE memory'[operand.n + 1]

\* C12: the pending characters are Reverse(input_buffer), in host order.  An in
\* that completes with characters pending delivers the first of them, keeps
\* the rest in order and reads no line; with none pending it reads one line,
\* delivers its first character and keeps the rest in order.  No other
\* instruction touches the pending characters or reads a line.
C12_InputInOrder ==
    [][ /\ (Dispatched(20) /\ pc' = "while")
             => IF input_buffer # <<>>
                THEN /\ reads' = reads
                     /\ Delivered(get_value(pointer + 1)) = Head(Reverse(input_buffer))
                     /\ Reverse(input_buffer') = Tail(Reverse(input_buffer))
                ELSE /\ reads' = reads + 1
                     /\ \E line \in HostLines \ {EndOfFile} :
                          /\ Delivered(get_value(pointer + 1)) = Head(line)
                          /\ Reverse(input_buffer') = Tail(line)
        /\ ~Dispatched(20) => UNCHANGED <<input_buffer, reads>> ]_vars

\* C12 witness: ReadThree has delivered "x", the newline, and after a second
\* line the "x" of that line, whose newline is still pending
C12_Witness ==
    /\ program = ReadThree
    /\ last = "in"
    /\ pointer = 10
    /\ registers[0] = 120
    /\ registers[1] = 10
    /\ registers[2] = 120
    /\ reads = 2
    /\ input_buffer = <<10>>

\* C13: with operand values below 32768, a completed add stores
\* (b + c) mod 32768 and a completed mult stores (b * c) mod 32768.
C13_AddMultReduce ==
    [][ LET r == get_register(pointer + 1).v
            b == read_value(pointer + 2).v
            c == read_value(pointer + 3).v
        IN /\ (Dispatched(9) /\ pc' = "while" /\ b < WordModulus /\ c < WordModulus)
                => registers'[r] = (b + c) % WordModulus
           /\ (Dispatched(10) /\ pc' = "while" /\ b < WordModulus /\ c < WordModulus)
                => registers'[r] = (b * c) % WordModulus ]_vars

\* C13 witness: add 32767 1 has stored 0 and mult 32767 32767 has stored 1
C13_Witness ==
    /\ program = Wraparound
    /\ last = "mult"
    /\ registers[0] = 0
    /\ registers[1] = 1

\* C14: with an operand value v below 32768, a completed not stores 32767 - v.
C14_NotIsComplement ==
    [][ LET r == get_register(pointer + 1).v
            v == read_value(pointer + 2).v
        IN (Dispatched(14) /\ pc' = "while" /\ v < WordModulus)
             => registers'[r] = (WordModulus - 1) - v ]_vars

\* C14 witness: not 0 has stored 32767
C14_Witness ==
    /\ program = Wraparound
    /\ last = "not"
    /\ registers[2] = 32767

\* C15: mod whose operands resolve panics and writes no register when
\* resolve(c) is 0, and otherwise stores resolve(b) mod resolve(c) and
\* advances the pointer by 4.
C15_ModByZeroAborts ==
    [][ LET r == get_register(pointer + 1)
            b == read_value(pointer + 2)
            c == read_value(pointer + 3)
        IN (Dispatched(11) /\ r.ok /\ b.ok /\ c.ok)
             => IF c.v = 0
                THEN /\ pc' = "panicked"
                     /\ error' = RemainderByZero
                     /\ UNCHANGED <<registers, pointer>>
                ELSE /\ pc' = "while"
                     /\ registers'[r.v] = b.v % c.v
                     /\ pointer' = pointer + 4 ]_vars

\* C15 witness: a mod by zero has aborted
C15_Witness ==
    /\ pc = "panicked"
    /\ error = RemainderByZero
    /\ last = "mod"

\* C16: jt continues at resolve(b) when resolve(a) is not 0 and three words on
\* otherwise; jf continues at resolve(b) when resolve(a) is 0 and three words
\* on otherwise.
C16_ConditionalJumps ==
    [][ LET a == read_value(pointer + 1)
            b == read_value(pointer + 2)
        IN /\ (Dispatched(7) /\ a.ok /\ (a.v # 0 => b.ok))
                => ( /\ pc' = "while"
                     /\ pointer' = IF a.v # 0 THEN b.v ELSE pointer + 3 )
           /\ (Dispatched(8) /\ a.ok /\ (a.v = 0 => b.ok))
                => ( /\ pc' = "while"
                     /\ pointer' = IF a.v = 0 THEN b.v ELSE pointer + 3 ) ]_vars

\* C16 witness: the jt of Scenario5 has jumped to address 9 on r0 = 1
C16_Witness ==
    /\ program = Scenario5
    /\ last = "jt"
    /\ registers[0] = 1
    /\ pointer = 9

\* one plus the operand count of every opcode that falls through
Advance ==
    [k \in {1, 14, 15, 16} |-> 3] @@ [k \in {2, 3, 19, 20} |-> 2]
      @@ [k \in {4, 5, 9, 10, 11, 12, 13} |-> 4] @@ (21 :> 1)

\* C17: a completed fall-through instruction advances the pointer by one plus
\* its operand count, and the pointer changes in no other way than that or to
\* the target of a completed jmp, jt, jf, call or ret.
C17_PointerAdvance ==
    [][ /\ (pc = "match" /\ pc' = "while" /\ op_code \in DOMAIN Advance)
             => pointer' = pointer + Advance[op_code]
        /\ pointer' # pointer
             => ( /\ pc = "match"
                  /\ pc' = "while"
                  /\ \/ op_code \in DOMAIN Advance
                     \/ op_code \in {6, 17} /\ pointer' = read_value(pointer + 1).v
                     \/ op_code \in {7, 8}
                          /\ pointer' \in {read_value(pointer + 2).v, pointer + 3}
                     \/ op_code = 18 /\ pointer' = stack[Len(stack)] ) ]_vars

\* C17 witness: Scenario2 has run set, set, add, out and halted at 3 + 3 + 4 + 2
C17_Witness ==
    /\ program = Scenario2
    /\ pc = "halted"
    /\ pointer = 12
    /\ output = <<3>>

\* C18: the image read_binary returns has one word per byte pair, in order,
\* each the first byte plus 256 times the second; an odd last byte is dropped.
C18_LoaderLittleEndian ==
    pc = "loaded" =>
        /\ Len(memory) = Len(file) \div 2
        /\ \A i \in 1..Len(memory) : memory[i] = file[2 * i - 1] + 256 * file[2 * i]

\* C18 witness: the bytes 0x12 0x34 0xff have been loaded as the one word 0x3412
C18_Witness ==
    /\ pc = "loaded"
    /\ file = <<18, 52, 255>>
    /\ memory = <<13330>>

\* C19: the arm that calls halt is never enabled, no run ends with the
\* "halt!" panic, and a run that halted did so without a panic.
C19_HaltArmUnreachable ==
    /\ ~ENABLED halt
    /\ error # HaltPanic
    /\ pc = "halted" => error = ""

\* C19 witness: Scenario1 has emitted "Hi" and halted on the stored 0
C19_Witness ==
    /\ program = Scenario1
    /\ pc = "halted"
    /\ error = ""
    /\ output = <<72, 105>>
    /\ memory[pointer + 1] = 0

\* C20: jmp, jt, jf, out and noop leave the registers, the memory, the stack
\* and the input buffer as they were, and all but out leave the output too.
C20_JumpsOutNoopFrame ==
    [][ (pc = "match" /\ read_value_at_pointer.ok /\ op_code \in {6, 7, 8, 19, 21})
          => ( /\ UNCHANGED <<registers, memory, stack, input_buffer>>
               /\ op_code # 19 => UNCHANGED output ) ]_vars

\* C20 witness: the jmp of Scenario3 has jumped to address 3
C20_Witness ==
    /\ program = Scenario3
    /\ last = "jmp"
    /\ pointer = 3
    /\ stack = <<>>

====
